---- MODULE Spec2Model ----
(***************************************************************************)
(* Oxi-DB storage engine: the ordered container (btree.rs), the schema-    *)
(* enforcing Table (table.rs) and the Database with its whole-file         *)
(* persistence (database.rs).                                              *)
(*                                                                         *)
(* Strings (table names, column names, keys, paths, Text payloads) are     *)
(* sequences of byte values; their order is the byte-wise lexicographic    *)
(* order of Rust's String.  An ordered map (std BTreeMap) is a sequence of *)
(* <<key, value>> pairs kept in strictly ascending key order.              *)
(***************************************************************************)
EXTENDS Integers, Sequences, FiniteSets, TLC

VARIABLES
    tbl,    \* a stand-alone Table (table.rs:29-38)
    db,     \* the Database instance: [path, tables] (database.rs:33-38)
    fs,     \* the filesystem: path -> [exists, bytes]
    last,   \* the last call made and the Result it returned
    unsaved,\* calls since the file at db.path last agreed with memory
    peer,   \* a second Database instance, held by another owner
    tree    \* a stand-alone BTree<K, V> (btree.rs:7-13)

vars == <<tbl, db, fs, last, unsaved, peer, tree>>

----------------------------------------------------------------------------
(* Bounds of the model *)

MaxValLen == 2      \* longest values sequence handed to insert/update
MaxRows == 2        \* most rows a table holds
MaxUnsaved == 1     \* most in-memory mutations not yet written to the file

----------------------------------------------------------------------------
(* Strings *)

Min(a, b) == IF a < b THEN a ELSE b

\* String's Ord: byte-wise lexicographic
StrLess(a, b) ==
    \/ Len(a) < Len(b) /\ \A j \in 1..Len(a) : a[j] = b[j]
    \/ \E i \in 1..Min(Len(a), Len(b)) :
          a[i] < b[i] /\ \A j \in 1..(i - 1) : a[j] = b[j]

\* the byte 0xFF never occurs in UTF-8
InvalidByte == 255
IsUtf8(s) == \A i \in 1..Len(s) : s[i] # InvalidByte

----------------------------------------------------------------------------
(* types.rs: Value, Key, Row, Column, ColumnType *)

ColumnTypes == <<"Integer", "Float", "Text", "Boolean", "Blob">>

Null == [tag |-> "Null"]
Integer(i) == [tag |-> "Integer", v |-> i]
Float(bits) == [tag |-> "Float", v |-> bits]
Text(s) == [tag |-> "Text", v |-> s]
Boolean(b) == [tag |-> "Boolean", v |-> b]
Blob(bytes) == [tag |-> "Blob", v |-> bytes]

Column(name, ty) == [name |-> name, column_type |-> ty]

RowNew(values) == [values |-> values]

None == [some |-> FALSE]
Some(x) == [some |-> TRUE, v |-> x]

----------------------------------------------------------------------------
(* error.rs: DbError, Result *)

Ok == [kind |-> "Ok"]
TableExists == [kind |-> "TableExists"]
TableNotFound == [kind |-> "TableNotFound"]
KeyExists == [kind |-> "KeyExists"]
KeyNotFound == [kind |-> "KeyNotFound"]
IoError(k) == [kind |-> "IoError", io |-> k]
BincodeError == [kind |-> "BincodeError"]
TypeConversionError == [kind |-> "TypeConversionError"]
\* DbError::Other(format!("Expected {} values, got {}", expected, got))
Other(expected, got) == [kind |-> "Other", expected |-> expected, got |-> got]

----------------------------------------------------------------------------
(* btree.rs: BTree<K, V>, a wrapper around std BTreeMap *)

\* std BTreeMap: index of key in the map, 0 when absent
IndexOf(m, key) ==
    IF \E i \in 1..Len(m) : m[i][1] = key
    THEN CHOOSE i \in 1..Len(m) : m[i][1] = key
    ELSE 0

\* number of stored keys that sort before key
Rank(m, key) == Cardinality({i \in 1..Len(m) : StrLess(m[i][1], key)})

\* mutant: a new key is stored behind the others, in insertion order
MapInsert_Append(m, key, value) ==
    LET i == IndexOf(m, key) IN
    IF i # 0
    THEN [m EXCEPT ![i] = <<key, value>>]
    ELSE Append(m, <<key, value>>)

MapInsert(m, key, value) ==
    LET i == IndexOf(m, key) IN
    IF i # 0
    THEN [m EXCEPT ![i] = <<key, value>>]
    ELSE LET r == Rank(m, key) IN
         SubSeq(m, 1, r) \o <<(<<key, value>>)>> \o SubSeq(m, r + 1, Len(m))

MapGet(m, key) ==
    LET i == IndexOf(m, key) IN
    IF i = 0 THEN None ELSE Some(m[i][2])

\* get_mut followed by an assignment through the returned reference
MapGetMutAssign(m, key, value) ==
    LET i == IndexOf(m, key) IN
    IF i = 0 THEN m ELSE [m EXCEPT ![i] = <<key, value>>]

MapRemove(m, key) ==
    LET i == IndexOf(m, key) IN
    IF i = 0
    THEN [removed |-> None, map |-> m]
    ELSE [removed |-> Some(m[i][2]),
          map |-> SubSeq(m, 1, i - 1) \o SubSeq(m, i + 1, Len(m))]

MapKeys(m) == [i \in 1..Len(m) |-> m[i][1]]

\* the pairs of a map, as a set
Pairs(m) == {m[i] : i \in 1..Len(m)}

BTreeNew == <<>>

\* mutant: a key that is present keeps its value
BTreeInsert_KeepsOld(m, key, value) ==
    IF MapGet(m, key).some THEN m ELSE MapInsert(m, key, value)

BTreeInsert(m, key, value) == MapInsert(m, key, value)

BTreeSearch(m, key) == MapGet(m, key)

BTreeGetMutAssign(m, key, value) == MapGetMutAssign(m, key, value)

\* mutant: the value is returned and the entry stays
BTreeRemove_KeepsEntry(m, key) ==
    [removed |-> MapRemove(m, key).removed, map |-> m]

BTreeRemove(m, key) == MapRemove(m, key)

\* traverse(f): the pairs in the order in which f is applied to them
BTreeTraverse(m) == m

\* mutant: the pairs are collected from the last to the first
BTreeToVec_Reversed(m) == [i \in 1..Len(m) |-> m[Len(m) + 1 - i]]

BTreeToVec(m) == m

BTreeIsEmpty(m) == Len(m) = 0

BTreeLen(m) == Len(m)

BTreeClear(m) == <<>>

\* the representation invariant of an ordered map
Ascending(m) == \A i \in 1..(Len(m) - 1) : StrLess(m[i][1], m[i + 1][1])

----------------------------------------------------------------------------
(* table.rs: Table *)

TableNew(name, columns, primary_key) ==
    [name |-> name, columns |-> columns, primary_key |-> primary_key,
     data |-> BTreeNew]

\* mutant: an Integer column also takes a Float
validate_value_type_Coerce(columns, column_idx, value) ==
    LET column == columns[column_idx]
        valid ==
            \/ column.column_type = "Integer" /\ value.tag \in {"Integer", "Float"}
            \/ column.column_type = "Float" /\ value.tag = "Float"
            \/ column.column_type = "Text" /\ value.tag = "Text"
            \/ column.column_type = "Boolean" /\ value.tag = "Boolean"
            \/ column.column_type = "Blob" /\ value.tag = "Blob"
            \/ value.tag = "Null"
    IN IF valid THEN Ok ELSE TypeConversionError

\* mutant: the arm that lets Null through is missing
validate_value_type_NoNull(columns, column_idx, value) ==
    LET column == columns[column_idx]
        valid ==
            \/ column.column_type = "Integer" /\ value.tag = "Integer"
            \/ column.column_type = "Float" /\ value.tag = "Float"
            \/ column.column_type = "Text" /\ value.tag = "Text"
            \/ column.column_type = "Boolean" /\ value.tag = "Boolean"
            \/ column.column_type = "Blob" /\ value.tag = "Blob"
    IN IF valid THEN Ok ELSE TypeConversionError

validate_value_type(columns, column_idx, value) ==
    LET column == columns[column_idx]
        valid ==
            \/ column.column_type = "Integer" /\ value.tag = "Integer"
            \/ column.column_type = "Float" /\ value.tag = "Float"
            \/ column.column_type = "Text" /\ value.tag = "Text"
            \/ column.column_type = "Boolean" /\ value.tag = "Boolean"
            \/ column.column_type = "Blob" /\ value.tag = "Blob"
            \/ value.tag = "Null"
    IN IF valid THEN Ok ELSE TypeConversionError

\* the loop `for (i, value) in values.iter().enumerate()` with `?`:
\* the result of the first failing validation, Ok when none fails
ValidateAll(columns, values) ==
    IF \E i \in 1..Len(values) : validate_value_type(columns, i, values[i]) # Ok
    THEN LET first == CHOOSE i \in 1..Len(values) :
                        /\ validate_value_type(columns, i, values[i]) # Ok
                        /\ \A j \in 1..(i - 1) :
                              validate_value_type(columns, j, values[j]) = Ok
         IN validate_value_type(columns, first, values[first])
    ELSE Ok

\* mutant: no key check, the container's upsert overwrites
TableInsert_Upsert(t, key, values) ==
    IF Len(values) # Len(t.columns)
    THEN [res |-> Other(Len(t.columns), Len(values)), table |-> t]
    ELSE IF ValidateAll(t.columns, values) # Ok
    THEN [res |-> ValidateAll(t.columns, values), table |-> t]
    ELSE [res |-> Ok,
          table |-> [t EXCEPT !.data = BTreeInsert(t.data, key, RowNew(values))]]

\* mutant: only a too long values sequence is rejected
TableInsert_ShortAccepted(t, key, values) ==
    IF BTreeSearch(t.data, key).some
    THEN [res |-> KeyExists, table |-> t]
    ELSE IF Len(values) > Len(t.columns)
    THEN [res |-> Other(Len(t.columns), Len(values)), table |-> t]
    ELSE IF ValidateAll(t.columns, values) # Ok
    THEN [res |-> ValidateAll(t.columns, values), table |-> t]
    ELSE [res |-> Ok,
          table |-> [t EXCEPT !.data = BTreeInsert(t.data, key, RowNew(values))]]

\* mutant: the arity check comes before the key check
TableInsert_ArityFirst(t, key, values) ==
    IF Len(values) # Len(t.columns)
    THEN [res |-> Other(Len(t.columns), Len(values)), table |-> t]
    ELSE IF BTreeSearch(t.data, key).some
    THEN [res |-> KeyExists, table |-> t]
    ELSE IF ValidateAll(t.columns, values) # Ok
    THEN [res |-> ValidateAll(t.columns, values), table |-> t]
    ELSE [res |-> Ok,
          table |-> [t EXCEPT !.data = BTreeInsert(t.data, key, RowNew(values))]]

TableInsert(t, key, values) ==
    IF BTreeSearch(t.data, key).some
    THEN [res |-> KeyExists, table |-> t]
    ELSE IF Len(values) # Len(t.columns)
    THEN [res |-> Other(Len(t.columns), Len(values)), table |-> t]
    ELSE IF ValidateAll(t.columns, values) # Ok
    THEN [res |-> ValidateAll(t.columns, values), table |-> t]
    ELSE [res |-> Ok,
          table |-> [t EXCEPT !.data = BTreeInsert(t.data, key, RowNew(values))]]

TableGet(t, key) ==
    LET r == BTreeSearch(t.data, key) IN
    IF r.some THEN [res |-> Ok, row |-> r.v] ELSE [res |-> KeyNotFound]

\* mutant: a Null among the new values keeps the value stored before
TableUpdate_Merge(t, key, values) ==
    IF ~BTreeSearch(t.data, key).some
    THEN [res |-> KeyNotFound, table |-> t]
    ELSE IF Len(values) # Len(t.columns)
    THEN [res |-> Other(Len(t.columns), Len(values)), table |-> t]
    ELSE IF ValidateAll(t.columns, values) # Ok
    THEN [res |-> ValidateAll(t.columns, values), table |-> t]
    ELSE [res |-> Ok,
          table |-> [t EXCEPT !.data =
                        BTreeGetMutAssign(t.data, key,
                            RowNew([i \in 1..Len(values) |->
                                      IF values[i] = Null
                                      THEN BTreeSearch(t.data, key).v.values[i]
                                      ELSE values[i]]))]]

\* mutant: the row is stored with the container's upsert, without key check
TableUpdate_Upsert(t, key, values) ==
    IF Len(values) # Len(t.columns)
    THEN [res |-> Other(Len(t.columns), Len(values)), table |-> t]
    ELSE IF ValidateAll(t.columns, values) # Ok
    THEN [res |-> ValidateAll(t.columns, values), table |-> t]
    ELSE [res |-> Ok,
          table |-> [t EXCEPT !.data = BTreeInsert(t.data, key, RowNew(values))]]

\* mutant: the values are stored without the arity and type checks
TableUpdate_Unchecked(t, key, values) ==
    IF ~BTreeSearch(t.data, key).some
    THEN [res |-> KeyNotFound, table |-> t]
    ELSE [res |-> Ok,
          table |-> [t EXCEPT !.data =
                        BTreeGetMutAssign(t.data, key, RowNew(values))]]

TableUpdate(t, key, values) ==
    IF ~BTreeSearch(t.data, key).some
    THEN [res |-> KeyNotFound, table |-> t]
    ELSE IF Len(values) # Len(t.columns)
    THEN [res |-> Other(Len(t.columns), Len(values)), table |-> t]
    ELSE IF ValidateAll(t.columns, values) # Ok
    THEN [res |-> ValidateAll(t.columns, values), table |-> t]
    ELSE [res |-> Ok,
          table |-> [t EXCEPT !.data =
                        BTreeGetMutAssign(t.data, key, RowNew(values))]]

\* mutant: the container is cleared when the key is found
TableDelete_Clear(t, key) ==
    LET r == BTreeRemove(t.data, key) IN
    IF r.removed.some
    THEN [res |-> Ok, table |-> [t EXCEPT !.data = BTreeClear(t.data)]]
    ELSE [res |-> KeyNotFound, table |-> t]

TableDelete(t, key) ==
    LET r == BTreeRemove(t.data, key) IN
    IF r.removed.some
    THEN [res |-> Ok, table |-> [t EXCEPT !.data = r.map]]
    ELSE [res |-> KeyNotFound, table |-> t]

TableGetAll(t) == BTreeToVec(t.data)

TableLen(t) == BTreeLen(t.data)

TableIsEmpty(t) == BTreeIsEmpty(t.data)

\* the HashMap built from the columns and the row: a later column of the
\* same name overwrites an earlier one
TableGetAsMap(t, key) ==
    LET g == TableGet(t, key) IN
    IF g.res # Ok THEN [res |-> g.res]
    ELSE LET idx == {i \in 1..Len(t.columns) : i <= Len(g.row.values)}
             names == {t.columns[i].name : i \in idx}
         IN [res |-> Ok,
             map |-> [n \in names |->
                        g.row.values[CHOOSE i \in idx :
                                        /\ t.columns[i].name = n
                                        /\ \A j \in idx :
                                              t.columns[j].name = n => j <= i]]]

\* predicate: the set of rows for which the closure returns true
TableFind(t, predicate) ==
    SelectSeq(BTreeTraverse(t.data), LAMBDA e : e[2] \in predicate)

----------------------------------------------------------------------------
(* Inputs of the stand-alone Table *)

\* "1" < "10" < "2" in String order
Keys == {<<49>>, <<49, 48>>, <<50>>}

ValuePool == {Null, Integer(1), Float(0), Text(<<97>>), Boolean(TRUE), Blob(<<7>>)}

SeqsUpTo(S, n) == UNION {[1..k -> S] : k \in 0..n}

ValueSeqs == SeqsUpTo(ValuePool, MaxValLen)

\* Table::new takes any Vec<Column>: the last schema has two columns of
\* the same name
Schemas ==
    { <<Column(<<105, 100>>, "Integer"), Column(<<110>>, "Text")>>,
      <<Column(<<98>>, "Boolean")>>,
      <<Column(<<102>>, "Float"), Column(<<102>>, "Blob")>> }

\* the primary key declared with a schema: the "id" column where there is one
PrimaryKeyOf(columns) ==
    IF \E i \in 1..Len(columns) : columns[i].name = <<105, 100>>
    THEN Some(<<105, 100>>)
    ELSE None

TName == <<116>>

NoCall == [op |-> "none", res |-> Ok]

\* the fixed Database state of the Table-level specification
IdleDb == [path |-> <<>>, tables |-> <<>>]

----------------------------------------------------------------------------
(* The stand-alone Table as a state machine *)

InitTable ==
    /\ \E columns \in Schemas :
          tbl = TableNew(TName, columns, PrimaryKeyOf(columns))
    /\ db = IdleDb
    /\ fs = <<>>
    /\ last = NoCall
    /\ unsaved = 0
    /\ peer = IdleDb
    /\ tree = BTreeNew

TInsert ==
    \E key \in Keys, values \in ValueSeqs :
        LET r == TableInsert(tbl, key, values) IN
        /\ TableLen(r.table) <= MaxRows
        /\ tbl' = r.table
        /\ last' = [op |-> "insert", key |-> key, n |-> Len(values), res |-> r.res]
        /\ UNCHANGED <<db, fs, unsaved, peer, tree>>

TUpdate ==
    \E key \in Keys, values \in ValueSeqs :
        LET r == TableUpdate(tbl, key, values) IN
        /\ tbl' = r.table
        /\ last' = [op |-> "update", key |-> key, n |-> Len(values), res |-> r.res]
        /\ UNCHANGED <<db, fs, unsaved, peer, tree>>

TDelete ==
    \E key \in Keys :
        LET r == TableDelete(tbl, key) IN
        /\ tbl' = r.table
        /\ last' = [op |-> "delete", key |-> key, res |-> r.res]
        /\ UNCHANGED <<db, fs, unsaved, peer, tree>>

TGet ==
    \E key \in Keys :
        /\ last' = [op |-> "get", key |-> key, res |-> TableGet(tbl, key).res]
        /\ UNCHANGED <<tbl, db, fs, unsaved, peer, tree>>

NextTable == TInsert \/ TUpdate \/ TDelete \/ TGet

SpecTable == InitTable /\ [][NextTable]_vars

----------------------------------------------------------------------------
(* bincode 1.x encoding of the Database value.  One element of the encoded *)
(* sequence stands for one fixed-width field (a u64 length, a u32 variant  *)
(* index, an i64, an f64, a bool or Option tag) or for one byte of a       *)
(* string or blob.                                                         *)

RECURSIVE Flatten(_)
Flatten(ss) == IF ss = <<>> THEN <<>> ELSE Head(ss) \o Flatten(Tail(ss))

SerStr(s) == <<Len(s)>> \o s

SerColumnType(ty) == <<(CHOOSE i \in 1..Len(ColumnTypes) : ColumnTypes[i] = ty) - 1>>

SerColumn(c) == SerStr(c.name) \o SerColumnType(c.column_type)

SerOption(o) == IF o.some THEN <<1>> \o SerStr(o.v) ELSE <<0>>

SerValue(v) ==
    CASE v.tag = "Null" -> <<0>>
      [] v.tag = "Integer" -> <<1, v.v>>
      [] v.tag = "Float" -> <<2, v.v>>
      [] v.tag = "Text" -> <<3>> \o SerStr(v.v)
      [] v.tag = "Boolean" -> <<4, IF v.v THEN 1 ELSE 0>>
      [] v.tag = "Blob" -> <<5, Len(v.v)>> \o v.v

SerRow(row) ==
    <<Len(row.values)>> \o Flatten([i \in 1..Len(row.values) |-> SerValue(row.values[i])])

SerBTree(m) ==
    <<Len(m)>> \o Flatten([i \in 1..Len(m) |-> SerStr(m[i][1]) \o SerRow(m[i][2])])

SerTable(t) ==
    SerStr(t.name)
    \o <<Len(t.columns)>> \o Flatten([i \in 1..Len(t.columns) |-> SerColumn(t.columns[i])])
    \o SerOption(t.primary_key)
    \o SerBTree(t.data)

SerTables(m) ==
    <<Len(m)>> \o Flatten([i \in 1..Len(m) |-> SerStr(m[i][1]) \o SerTable(m[i][2])])

\* bincode::serialize(self): serde refuses a path that is not UTF-8
bincode_serialize(d) ==
    IF IsUtf8(d.path)
    THEN [ok |-> TRUE, bytes |-> SerStr(d.path) \o SerTables(d.tables)]
    ELSE [ok |-> FALSE, bytes |-> <<>>]

(* Decoding: a reader takes the bytes and a position and returns the       *)
(* decoded value with the position after it, or fails.  A reader started   *)
(* at the position of a failure fails, so readers are chained by handing   *)
(* the result of one to the next.                                          *)

Fail == [ok |-> FALSE, val |-> <<>>, pos |-> 0]
Done(val, pos) == [ok |-> TRUE, val |-> val, pos |-> pos]

DeField(b, pos) ==
    IF pos >= 1 /\ pos <= Len(b) THEN Done(b[pos], pos + 1) ELSE Fail

\* n: the length field read before the bytes
DeBytesOf(b, n) ==
    IF n.ok /\ n.val >= 0 /\ n.pos + n.val - 1 <= Len(b)
    THEN Done(SubSeq(b, n.pos, n.pos + n.val - 1), n.pos + n.val)
    ELSE Fail

DeBytes(b, pos) == DeBytesOf(b, DeField(b, pos))

Utf8(s) == IF s.ok /\ IsUtf8(s.val) THEN s ELSE Fail

DeStr(b, pos) == Utf8(DeBytes(b, pos))

DeColumnOf(name, ty) ==
    IF name.ok /\ ty.ok /\ ty.val \in 0..(Len(ColumnTypes) - 1)
    THEN Done(Column(name.val, ColumnTypes[ty.val + 1]), ty.pos)
    ELSE Fail

DeColumnNamed(b, name) == DeColumnOf(name, DeField(b, name.pos))

DeColumn(b, pos) == DeColumnNamed(b, DeStr(b, pos))

SomeOf(s) == IF s.ok THEN Done(Some(s.val), s.pos) ELSE Fail

DeOptionOf(b, tag) ==
    IF ~tag.ok THEN Fail
    ELSE IF tag.val = 0 THEN Done(None, tag.pos)
    ELSE IF tag.val = 1 THEN SomeOf(DeStr(b, tag.pos))
    ELSE Fail

DeOption(b, pos) == DeOptionOf(b, DeField(b, pos))

Payload(tag, x) == IF x.ok THEN Done([tag |-> tag, v |-> x.val], x.pos) ELSE Fail

BoolPayload(x) ==
    IF x.ok /\ x.val \in {0, 1} THEN Done(Boolean(x.val = 1), x.pos) ELSE Fail

\* tag: the variant index read before the payload
DeValueOf(b, tag) ==
    IF ~tag.ok THEN Fail
    ELSE IF tag.val = 0 THEN Done(Null, tag.pos)
    ELSE IF tag.val = 1 THEN Payload("Integer", DeField(b, tag.pos))
    ELSE IF tag.val = 2 THEN Payload("Float", DeField(b, tag.pos))
    ELSE IF tag.val = 3 THEN Payload("Text", DeStr(b, tag.pos))
    ELSE IF tag.val = 4 THEN BoolPayload(DeField(b, tag.pos))
    ELSE IF tag.val = 5 THEN Payload("Blob", DeBytes(b, tag.pos))
    ELSE Fail

DeValue(b, pos) == DeValueOf(b, DeField(b, pos))

\* a sequence or map of n elements of one kind, read one by one
RECURSIVE DeSeq(_, _, _, _, _)

\* n: the length field read before the elements
DeVecOf(kind, b, n) ==
    IF n.ok /\ n.val >= 0 THEN DeSeq(kind, b, n.pos, n.val, <<>>) ELSE Fail

DeVec(kind, b, pos) == DeVecOf(kind, b, DeField(b, pos))

RowOf(vs) == IF vs.ok THEN Done(RowNew(vs.val), vs.pos) ELSE Fail

DeRow(b, pos) == RowOf(DeVec("Value", b, pos))

Pair(k, v) == IF k.ok /\ v.ok THEN Done(<<k.val, v.val>>, v.pos) ELSE Fail

DeRowEntryAt(b, k) == Pair(k, DeRow(b, k.pos))

DeRowEntry(b, pos) == DeRowEntryAt(b, DeStr(b, pos))

TableOf(name, cols, pk, data) ==
    IF name.ok /\ cols.ok /\ pk.ok /\ data.ok
    THEN Done([name |-> name.val, columns |-> cols.val,
               primary_key |-> pk.val, data |-> data.val], data.pos)
    ELSE Fail

DeTableData(b, name, cols, pk) ==
    TableOf(name, cols, pk, DeVec("RowEntry", b, pk.pos))

DeTablePk(b, name, cols) == DeTableData(b, name, cols, DeOption(b, cols.pos))

DeTableColumns(b, name) == DeTablePk(b, name, DeVec("Column", b, name.pos))

DeTable(b, pos) == DeTableColumns(b, DeStr(b, pos))

DeTableEntryAt(b, k) == Pair(k, DeTable(b, k.pos))

DeTableEntry(b, pos) == DeTableEntryAt(b, DeStr(b, pos))

DeElem(kind, b, pos) ==
    CASE kind = "Column" -> DeColumn(b, pos)
      [] kind = "Value" -> DeValue(b, pos)
      [] kind = "RowEntry" -> DeRowEntry(b, pos)
      [] kind = "TableEntry" -> DeTableEntry(b, pos)

\* a Vec is rebuilt by pushing, a map by inserting the decoded pairs
Collect(kind, acc, e) ==
    IF kind \in {"RowEntry", "TableEntry"}
    THEN MapInsert(acc, e[1], e[2])
    ELSE Append(acc, e)

DeSeqNext(kind, b, n, acc, e) ==
    IF e.ok THEN DeSeq(kind, b, e.pos, n - 1, Collect(kind, acc, e.val)) ELSE Fail

DeSeq(kind, b, pos, n, acc) ==
    IF n = 0 THEN Done(acc, pos)
    ELSE DeSeqNext(kind, b, n, acc, DeElem(kind, b, pos))

DatabaseOf(path, tables) ==
    IF path.ok /\ tables.ok
    THEN Done([path |-> path.val, tables |-> tables.val], tables.pos)
    ELSE Fail

DeDatabaseTables(b, path) == DatabaseOf(path, DeVec("TableEntry", b, path.pos))

\* bincode::deserialize(&data): bytes after the value are ignored
bincode_deserialize(b) == DeDatabaseTables(b, DeStr(b, 1))

----------------------------------------------------------------------------
(* The filesystem and the outcomes of its calls *)

NoFile == [exists |-> FALSE, bytes |-> <<>>]
File(bytes) == [exists |-> TRUE, bytes |-> bytes]

\* Path::parent: the path without its last component ("" for a bare name)
Parent(path) ==
    LET slashes == {i \in 1..Len(path) : path[i] = 47} IN
    IF slashes = {} THEN <<>>
    ELSE SubSeq(path, 1, (CHOOSE i \in slashes : \A j \in slashes : j <= i) - 1)

\* what the filesystem does to one save():
\*   mkdir_err   create_dir_all fails
\*   create_err  fs::write fails before the file is touched
\*   write_part  fs::write truncates the file and fails with only a part of
\*               the bytes written (here: all but the last)
IoOutcomes == {"ok", "mkdir_err", "create_err", "write_part"}

ReadOutcomes == {"ok", "read_err"}

----------------------------------------------------------------------------
(* database.rs: Database *)

DatabaseNew(path) == [path |-> path, tables |-> <<>>]

\* mutant: the Database returned is bound to the path handed to open
DatabaseOpen_Rebinds(fsv, path, io) ==
    IF ~fsv[path].exists
    THEN [res |-> IoError("NotFound"), db |-> None, fs |-> fsv]
    ELSE IF io = "read_err"
    THEN [res |-> IoError("Other"), db |-> None, fs |-> fsv]
    ELSE LET d == bincode_deserialize(fsv[path].bytes) IN
         IF d.ok
         THEN [res |-> Ok, db |-> Some([d.val EXCEPT !.path = path]), fs |-> fsv]
         ELSE [res |-> BincodeError, db |-> None, fs |-> fsv]

\* mutant: a missing file is created empty and an empty Database returned
DatabaseOpen_CreateMissing(fsv, path, io) ==
    IF ~fsv[path].exists
    THEN [res |-> Ok, db |-> Some(DatabaseNew(path)),
          fs |-> [fsv EXCEPT ![path] = File(<<>>)]]
    ELSE IF io = "read_err"
    THEN [res |-> IoError("Other"), db |-> None, fs |-> fsv]
    ELSE LET d == bincode_deserialize(fsv[path].bytes) IN
         IF d.ok THEN [res |-> Ok, db |-> Some(d.val), fs |-> fsv]
         ELSE [res |-> BincodeError, db |-> None, fs |-> fsv]

\* mutant: what was decoded before the failure is returned
DatabaseOpen_Partial(fsv, path, io) ==
    IF ~fsv[path].exists
    THEN [res |-> IoError("NotFound"), db |-> None, fs |-> fsv]
    ELSE IF io = "read_err"
    THEN [res |-> IoError("Other"), db |-> None, fs |-> fsv]
    ELSE LET d == bincode_deserialize(fsv[path].bytes) IN
         IF d.ok THEN [res |-> Ok, db |-> Some(d.val), fs |-> fsv]
         ELSE [res |-> Ok, db |-> Some(DatabaseNew(path)), fs |-> fsv]

\* open only asks whether the file exists and reads it: fs is returned as
\* it was handed in
DatabaseOpen(fsv, path, io) ==
    IF ~fsv[path].exists
    THEN [res |-> IoError("NotFound"), db |-> None, fs |-> fsv]
    ELSE IF io = "read_err"
    THEN [res |-> IoError("Other"), db |-> None, fs |-> fsv]
    ELSE LET d == bincode_deserialize(fsv[path].bytes) IN
         IF d.ok THEN [res |-> Ok, db |-> Some(d.val), fs |-> fsv]
         ELSE [res |-> BincodeError, db |-> None, fs |-> fsv]

\* mutant: the file is opened without truncation: what it held beyond the
\* new bytes stays
DatabaseSave_NoTruncate(d, fsv, io) ==
    IF Parent(d.path) # <<>> /\ io = "mkdir_err"
    THEN [res |-> IoError("Other"), fs |-> fsv]
    ELSE LET serialized == bincode_serialize(d) IN
         IF ~serialized.ok
         THEN [res |-> BincodeError, fs |-> fsv]
         ELSE IF io \in {"create_err", "write_part"}
         THEN [res |-> IoError("Other"), fs |-> fsv]
         ELSE [res |-> Ok,
               fs |-> [fsv EXCEPT ![d.path] =
                          File(serialized.bytes
                               \o SubSeq(fsv[d.path].bytes,
                                         Len(serialized.bytes) + 1,
                                         Len(fsv[d.path].bytes)))]]

\* mutant: the file is opened for appending instead of being overwritten
DatabaseSave_Append(d, fsv, io) ==
    IF Parent(d.path) # <<>> /\ io = "mkdir_err"
    THEN [res |-> IoError("Other"), fs |-> fsv]
    ELSE LET serialized == bincode_serialize(d) IN
         IF ~serialized.ok
         THEN [res |-> BincodeError, fs |-> fsv]
         ELSE IF io \in {"create_err", "write_part"}
         THEN [res |-> IoError("Other"), fs |-> fsv]
         ELSE [res |-> Ok,
               fs |-> [fsv EXCEPT ![d.path] =
                          File(fsv[d.path].bytes \o serialized.bytes)]]

\* mutant: the bytes go to a temporary file that is renamed over the path
\* only when they were written in full
DatabaseSave_Rename(d, fsv, io) ==
    IF Parent(d.path) # <<>> /\ io = "mkdir_err"
    THEN [res |-> IoError("Other"), fs |-> fsv]
    ELSE LET serialized == bincode_serialize(d) IN
         IF ~serialized.ok
         THEN [res |-> BincodeError, fs |-> fsv]
         ELSE IF io \in {"create_err", "write_part"}
         THEN [res |-> IoError("Other"), fs |-> fsv]
         ELSE [res |-> Ok,
               fs |-> [fsv EXCEPT ![d.path] = File(serialized.bytes)]]

DatabaseSave(d, fsv, io) ==
    IF Parent(d.path) # <<>> /\ io = "mkdir_err"
    THEN [res |-> IoError("Other"), fs |-> fsv]
    ELSE LET serialized == bincode_serialize(d) IN
         IF ~serialized.ok
         THEN [res |-> BincodeError, fs |-> fsv]
         ELSE IF io = "create_err"
         THEN [res |-> IoError("Other"), fs |-> fsv]
         ELSE IF io = "write_part"
         THEN [res |-> IoError("Other"),
               fs |-> [fsv EXCEPT ![d.path] =
                          File(SubSeq(serialized.bytes, 1, Len(serialized.bytes) - 1))]]
         ELSE [res |-> Ok,
               fs |-> [fsv EXCEPT ![d.path] = File(serialized.bytes)]]

\* a mutating operation ends with `self.save()`: mem is what the part before
\* it made of the Database, and an Err of that part returns before the save
\* mutant: the save comes first, whatever the part before it returned
ThenSave_SavesAnyway(mem, fsv, io) ==
    LET s == DatabaseSave(mem.db, fsv, io) IN
    IF mem.res # Ok THEN [res |-> mem.res, db |-> mem.db, fs |-> s.fs]
    ELSE [res |-> s.res, db |-> mem.db, fs |-> s.fs]

\* mutant: the operation returns without calling save
ThenSave_NoSave(mem, fsv, io) == [res |-> mem.res, db |-> mem.db, fs |-> fsv]

ThenSave(mem, fsv, io) ==
    IF mem.res # Ok THEN [res |-> mem.res, db |-> mem.db, fs |-> fsv]
    ELSE LET s == DatabaseSave(mem.db, fsv, io) IN
         [res |-> s.res, db |-> mem.db, fs |-> s.fs]

\* mutant: no check of the name, the new table replaces the one stored
CreateTableMem_Replace(d, name, columns, primary_key) ==
    [res |-> Ok,
     db |-> [d EXCEPT !.tables =
                MapInsert(d.tables, name, TableNew(name, columns, primary_key))]]

CreateTableMem(d, name, columns, primary_key) ==
    IF MapGet(d.tables, name).some
    THEN [res |-> TableExists, db |-> d]
    ELSE [res |-> Ok,
          db |-> [d EXCEPT !.tables =
                     MapInsert(d.tables, name, TableNew(name, columns, primary_key))]]

DatabaseCreateTable(d, fsv, name, columns, primary_key, io) ==
    ThenSave(CreateTableMem(d, name, columns, primary_key), fsv, io)

\* mutant: all tables are removed
DropTableMem_Clear(d, name) ==
    IF ~MapGet(d.tables, name).some
    THEN [res |-> TableNotFound, db |-> d]
    ELSE [res |-> Ok, db |-> [d EXCEPT !.tables = <<>>]]

DropTableMem(d, name) ==
    IF ~MapGet(d.tables, name).some
    THEN [res |-> TableNotFound, db |-> d]
    ELSE [res |-> Ok, db |-> [d EXCEPT !.tables = MapRemove(d.tables, name).map]]

DatabaseDropTable(d, fsv, name, io) == ThenSave(DropTableMem(d, name), fsv, io)

\* get_table and get_table_mut
DatabaseGetTable(d, name) ==
    LET r == MapGet(d.tables, name) IN
    IF r.some THEN [res |-> Ok, table |-> r.v] ELSE [res |-> TableNotFound]

\* mutant: the names come out in descending order
DatabaseListTables_Descending(d) ==
    [i \in 1..Len(d.tables) |-> MapKeys(d.tables)[Len(d.tables) + 1 - i]]

DatabaseListTables(d) == MapKeys(d.tables)

\* mutant: the row is inserted into a clone of the table
InsertMem_OnClone(d, table_name, key, values) ==
    LET g == DatabaseGetTable(d, table_name) IN
    IF g.res # Ok THEN [res |-> g.res, db |-> d]
    ELSE [res |-> TableInsert(g.table, key, values).res, db |-> d]

\* self.get_table_mut(table_name)?.insert(key, values)?
InsertMem(d, table_name, key, values) ==
    LET g == DatabaseGetTable(d, table_name) IN
    IF g.res # Ok THEN [res |-> g.res, db |-> d]
    ELSE LET r == TableInsert(g.table, key, values) IN
         IF r.res # Ok THEN [res |-> r.res, db |-> d]
         ELSE [res |-> Ok,
               db |-> [d EXCEPT !.tables =
                          MapGetMutAssign(d.tables, table_name, r.table)]]

DatabaseInsert(d, fsv, table_name, key, values, io) ==
    ThenSave(InsertMem(d, table_name, key, values), fsv, io)

DatabaseGet(d, table_name, key) ==
    LET g == DatabaseGetTable(d, table_name) IN
    IF g.res # Ok THEN [res |-> g.res] ELSE TableGet(g.table, key)

\* self.get_table_mut(table_name)?.update(key, values)?
UpdateMem(d, table_name, key, values) ==
    LET g == DatabaseGetTable(d, table_name) IN
    IF g.res # Ok THEN [res |-> g.res, db |-> d]
    ELSE LET r == TableUpdate(g.table, key, values) IN
         IF r.res # Ok THEN [res |-> r.res, db |-> d]
         ELSE [res |-> Ok,
               db |-> [d EXCEPT !.tables =
                          MapGetMutAssign(d.tables, table_name, r.table)]]

DatabaseUpdate(d, fsv, table_name, key, values, io) ==
    ThenSave(UpdateMem(d, table_name, key, values), fsv, io)

\* self.get_table_mut(table_name)?.delete(key)?
DeleteMem(d, table_name, key) ==
    LET g == DatabaseGetTable(d, table_name) IN
    IF g.res # Ok THEN [res |-> g.res, db |-> d]
    ELSE LET r == TableDelete(g.table, key) IN
         IF r.res # Ok THEN [res |-> r.res, db |-> d]
         ELSE [res |-> Ok,
               db |-> [d EXCEPT !.tables =
                          MapGetMutAssign(d.tables, table_name, r.table)]]

DatabaseDelete(d, fsv, table_name, key, io) ==
    ThenSave(DeleteMem(d, table_name, key), fsv, io)

----------------------------------------------------------------------------
(* Inputs of the Database *)

\* "d/a", and a path that is not UTF-8
PathA == <<100, 47, 97>>
PathBad == <<InvalidByte>>
Paths == {PathA, PathBad}

\* "p" < "u"
TableNames == {<<117>>, <<112>>}

\* the (name, columns, primary_key) triples handed to create_table
TableDefs ==
    { [name |-> <<117>>, columns |-> <<Column(<<105, 100>>, "Integer")>>,
       primary_key |-> Some(<<105, 100>>)],
      [name |-> <<112>>, columns |-> <<Column(<<110>>, "Text")>>,
       primary_key |-> None] }

DbKeys == {<<49>>, <<49, 48>>}

\* the values sequences handed to the Database: one too short, one valid
\* for either table, one of the wrong type for either table, one valid for
\* "p" only, one too long
DbValueSeqs ==
    { <<>>, <<Null>>, <<Boolean(TRUE)>>, <<Text(<<97>>)>>,
      <<Boolean(TRUE), Text(<<97>>)>> }

IdleTable == TableNew(TName, <<>>, None)

----------------------------------------------------------------------------
(* The Database as a state machine *)

Init ==
    /\ \E path \in Paths : db = DatabaseNew(path)
    /\ fs = [p \in Paths |-> NoFile]
    /\ tbl = IdleTable
    /\ last = NoCall
    /\ unsaved = 0
    /\ peer = IdleDb
    /\ tree = BTreeNew

\* the filesystem outcomes that matter to a call: only a call that reaches
\* the save can meet a failure of the filesystem
IoFor(res) == IF res = Ok THEN IoOutcomes ELSE {"ok"}

\* a call that returned Ok has written memory to the file; a call that failed
\* after changing memory or the file has let them drift apart
Drift(res, d, fsv) ==
    /\ unsaved' = IF res = Ok THEN 0
                  ELSE IF d # db \/ fsv # fs THEN unsaved + 1
                  ELSE unsaved
    /\ unsaved' <= MaxUnsaved

\* last.flushed: how many earlier calls' changes this call's save carried
\* to the file along with its own
Returned(op, r) ==
    /\ db' = r.db
    /\ fs' = r.fs
    /\ last' = [op |-> op, res |-> r.res,
                flushed |-> IF r.res = Ok THEN unsaved ELSE 0]
    /\ Drift(r.res, r.db, r.fs)
    /\ UNCHANGED <<tbl, peer, tree>>

\* mutant: the change is written to the file as a Database operation's is
Mutated_Saves(op, m) ==
    /\ m.res = Ok
    /\ db' = m.db
    /\ fs' = DatabaseSave(m.db, fs, "ok").fs
    /\ last' = [op |-> op, res |-> m.res]
    /\ unsaved' = unsaved + 1
    /\ unsaved' <= MaxUnsaved
    /\ UNCHANGED <<tbl, peer, tree>>

\* a change made through get_table_mut stays in memory; a call that
\* returns Err changes nothing
Mutated(op, m) ==
    /\ m.res = Ok
    /\ db' = m.db
    /\ last' = [op |-> op, res |-> m.res]
    /\ unsaved' = unsaved + 1
    /\ unsaved' <= MaxUnsaved
    /\ UNCHANGED <<tbl, fs, peer, tree>>

Save ==
    \E io \in IoOutcomes :
    \E s \in {DatabaseSave(db, fs, io)} :
        Returned("save", [res |-> s.res, db |-> db, fs |-> s.fs])

\* mutant: a database file found at the path is loaded
New_Loads ==
    \E path \in Paths :
    \E o \in {DatabaseOpen(fs, path, "ok")} :
        /\ db' = IF o.res = Ok THEN o.db.v ELSE DatabaseNew(path)
        /\ last' = [op |-> "new", res |-> Ok]
        /\ unsaved' = 0
        /\ UNCHANGED <<tbl, fs, peer, tree>>

\* the instance is replaced by the one new(path) returns
New ==
    \E path \in Paths :
    \E n \in {DatabaseNew(path)} :
        /\ db' = n
        /\ last' = [op |-> "new", res |-> Ok]
        /\ unsaved' = 0
        /\ UNCHANGED <<tbl, fs, peer, tree>>

\* the instance is replaced by the one open(path) returns
Open ==
    \E path \in Paths, io \in ReadOutcomes :
    \E o \in {DatabaseOpen(fs, path, io)} :
        /\ db' = IF o.res = Ok THEN o.db.v ELSE db
        /\ last' = [op |-> "open", res |-> o.res]
        /\ fs' = o.fs
        /\ unsaved' = IF o.res = Ok THEN 0 ELSE unsaved
        /\ UNCHANGED <<tbl, peer, tree>>

CreateTable ==
    \E def \in TableDefs :
    \E io \in IoFor(CreateTableMem(db, def.name, def.columns, def.primary_key).res) :
    \E r \in {DatabaseCreateTable(db, fs, def.name, def.columns, def.primary_key, io)} :
        Returned("create_table", r)

DropTable ==
    \E name \in TableNames :
    \E io \in IoFor(DropTableMem(db, name).res) :
    \E r \in {DatabaseDropTable(db, fs, name, io)} :
        Returned("drop_table", r)

Insert ==
    \E name \in TableNames, key \in DbKeys, values \in DbValueSeqs :
    \E io \in IoFor(InsertMem(db, name, key, values).res) :
    \E r \in {DatabaseInsert(db, fs, name, key, values, io)} :
        Returned("insert", r)

\* mutant: the call ends with a save as the mutating ones do
ReadOnly_Saves(call) ==
    /\ last' = call
    /\ fs' = DatabaseSave(db, fs, "ok").fs
    /\ UNCHANGED <<tbl, db, unsaved, peer, tree>>

\* a call through &self: it returns and assigns nothing
ReadOnly(call) ==
    /\ last' = call
    /\ UNCHANGED <<tbl, db, fs, unsaved, peer, tree>>

Get ==
    \E name \in TableNames, key \in DbKeys :
    \E g \in {DatabaseGet(db, name, key)} :
        ReadOnly([op |-> "get", res |-> g.res])

Update ==
    \E name \in TableNames, key \in DbKeys, values \in DbValueSeqs :
    \E io \in IoFor(UpdateMem(db, name, key, values).res) :
    \E r \in {DatabaseUpdate(db, fs, name, key, values, io)} :
        Returned("update", r)

Delete ==
    \E name \in TableNames, key \in DbKeys :
    \E io \in IoFor(DeleteMem(db, name, key).res) :
    \E r \in {DatabaseDelete(db, fs, name, key, io)} :
        Returned("delete", r)

\* db.get_table_mut(name)?.insert(key, values)
MutInsert ==
    \E name \in TableNames, key \in DbKeys, values \in DbValueSeqs :
    \E m \in {InsertMem(db, name, key, values)} :
        Mutated("mut_insert", m)

\* db.get_table_mut(name)?.update(key, values)
MutUpdate ==
    \E name \in TableNames, key \in DbKeys, values \in DbValueSeqs :
    \E m \in {UpdateMem(db, name, key, values)} :
        Mutated("mut_update", m)

\* db.get_table_mut(name)?.delete(key)
MutDelete ==
    \E name \in TableNames, key \in DbKeys :
    \E m \in {DeleteMem(db, name, key)} :
        Mutated("mut_delete", m)

Next ==
    \/ Save \/ Open \/ CreateTable \/ DropTable
    \/ Insert \/ Get \/ Update \/ Delete
    \/ MutInsert \/ MutUpdate \/ MutDelete

Spec == Init /\ [][Next]_vars

\* the Database whose instance may at any time be replaced by a new one
NextNew == Next \/ New

SpecNew == Init /\ [][NextNew]_vars

----------------------------------------------------------------------------
(* The Database with all its read-only calls: get_table and list_tables,   *)
(* and the reads of a Table borrowed with db.get_table(name)?              *)

GetTable ==
    \E name \in TableNames :
    \E g \in {DatabaseGetTable(db, name)} :
        ReadOnly([op |-> "get_table", res |-> g.res])

ListTables ==
    \E names \in {DatabaseListTables(db)} :
        ReadOnly([op |-> "list_tables", res |-> Ok, n |-> Len(names)])

ReadGet ==
    \E name \in TableNames, key \in DbKeys :
        /\ DatabaseGetTable(db, name).res = Ok
        /\ ReadOnly([op |-> "table_get",
                     res |-> TableGet(DatabaseGetTable(db, name).table, key).res])

ReadGetAll ==
    \E name \in TableNames :
        /\ DatabaseGetTable(db, name).res = Ok
        /\ ReadOnly([op |-> "get_all", res |-> Ok,
                     n |-> Len(TableGetAll(DatabaseGetTable(db, name).table))])

ReadGetAsMap ==
    \E name \in TableNames, key \in DbKeys :
        /\ DatabaseGetTable(db, name).res = Ok
        /\ ReadOnly([op |-> "get_as_map",
                     res |-> TableGetAsMap(DatabaseGetTable(db, name).table, key).res])

\* the predicate `|row| row.values[0] == Value::Null`
ReadFind ==
    \E name \in TableNames :
        /\ DatabaseGetTable(db, name).res = Ok
        /\ LET t == DatabaseGetTable(db, name).table
               predicate == {e[2] : e \in {x \in Pairs(TableGetAll(t)) :
                                              x[2].values[1] = Null}}
           IN ReadOnly([op |-> "find", res |-> Ok,
                        n |-> Len(TableFind(t, predicate))])

ReadLen ==
    \E name \in TableNames :
        /\ DatabaseGetTable(db, name).res = Ok
        /\ ReadOnly([op |-> "len", res |-> Ok,
                     n |-> TableLen(DatabaseGetTable(db, name).table)])

ReadIsEmpty ==
    \E name \in TableNames :
        /\ DatabaseGetTable(db, name).res = Ok
        /\ ReadOnly([op |-> "is_empty", res |-> Ok,
                     n |-> IF TableIsEmpty(DatabaseGetTable(db, name).table)
                           THEN 1 ELSE 0])

NextReads ==
    \/ Next
    \/ GetTable \/ ListTables
    \/ ReadGet \/ ReadGetAll \/ ReadGetAsMap \/ ReadFind \/ ReadLen \/ ReadIsEmpty

SpecReads == Init /\ [][NextReads]_vars

----------------------------------------------------------------------------
(* Two Database instances bound to the same path, each used by its own     *)
(* owner, one call at a time: db creates and drops tables; peer, created   *)
(* with new or replaced by what open returns, creates tables and inserts   *)
(* rows, on a filesystem that does not fail under it                       *)

InitPeers ==
    /\ db = DatabaseNew(PathA)
    /\ peer = DatabaseNew(PathA)
    /\ tree = BTreeNew
    /\ fs = [p \in Paths |-> NoFile]
    /\ tbl = IdleTable
    /\ last = NoCall
    /\ unsaved = 0

PeerReturned(op, r) ==
    /\ peer' = r.db
    /\ fs' = r.fs
    /\ last' = [op |-> op, res |-> r.res]
    /\ UNCHANGED <<tbl, db, unsaved, tree>>

PeerOpen ==
    \E o \in {DatabaseOpen(fs, db.path, "ok")} :
        PeerReturned("peer_open",
                     [res |-> o.res, fs |-> o.fs,
                      db |-> IF o.res = Ok THEN o.db.v ELSE peer])

PeerCreateTable ==
    \E def \in TableDefs :
    \E r \in {DatabaseCreateTable(peer, fs, def.name, def.columns,
                                  def.primary_key, "ok")} :
        PeerReturned("peer_create_table", r)

PeerInsert ==
    \E name \in TableNames, key \in DbKeys, values \in DbValueSeqs :
    \E r \in {DatabaseInsert(peer, fs, name, key, values, "ok")} :
        PeerReturned("peer_insert", r)

NextPeers ==
    \/ CreateTable \/ DropTable
    \/ PeerOpen \/ PeerCreateTable \/ PeerInsert

SpecPeers == InitPeers /\ [][NextPeers]_vars

----------------------------------------------------------------------------
(* The stand-alone BTree<String, V> as a state machine *)

\* the values stored in the stand-alone container
BValues == {"v1", "v2"}

InitBTree ==
    /\ tree = BTreeNew
    /\ tbl = IdleTable
    /\ db = IdleDb
    /\ fs = <<>>
    /\ last = NoCall
    /\ unsaved = 0
    /\ peer = IdleDb

BInsert ==
    \E key \in Keys, value \in BValues :
    \E t \in {BTreeInsert(tree, key, value)} :
        /\ tree' = t
        /\ last' = [op |-> "insert", res |-> Ok, key |-> key, value |-> value,
                    replaced |-> BTreeSearch(tree, key)]
        /\ UNCHANGED <<tbl, db, fs, unsaved, peer>>

BSearch ==
    \E key \in Keys :
        /\ last' = [op |-> "search", res |-> Ok, key |-> key,
                    found |-> BTreeSearch(tree, key)]
        /\ UNCHANGED <<tree, tbl, db, fs, unsaved, peer>>

\* get_mut(key), and the caller's assignment through the reference returned
BGetMut ==
    \E key \in Keys, value \in BValues :
    \E t \in {BTreeGetMutAssign(tree, key, value)} :
        /\ tree' = t
        /\ last' = [op |-> "get_mut", res |-> Ok, key |-> key,
                    found |-> BTreeSearch(tree, key)]
        /\ UNCHANGED <<tbl, db, fs, unsaved, peer>>

BRemove ==
    \E key \in Keys :
    \E r \in {BTreeRemove(tree, key)} :
        /\ tree' = r.map
        /\ last' = [op |-> "remove", res |-> Ok, key |-> key,
                    removed |-> r.removed]
        /\ UNCHANGED <<tbl, db, fs, unsaved, peer>>

BClear ==
    \E t \in {BTreeClear(tree)} :
        /\ tree' = t
        /\ last' = [op |-> "clear", res |-> Ok]
        /\ UNCHANGED <<tbl, db, fs, unsaved, peer>>

\* last.pairs: the arguments of the visitor's calls, in the order of the calls
BTraverse ==
    \E visited \in {BTreeTraverse(tree)} :
        /\ last' = [op |-> "traverse", res |-> Ok, pairs |-> visited]
        /\ UNCHANGED <<tree, tbl, db, fs, unsaved, peer>>

BToVec ==
    \E vec \in {BTreeToVec(tree)} :
        /\ last' = [op |-> "to_vec", res |-> Ok, pairs |-> vec]
        /\ UNCHANGED <<tree, tbl, db, fs, unsaved, peer>>

BLen ==
    \E n \in {BTreeLen(tree)} :
        /\ last' = [op |-> "len", res |-> Ok, n |-> n,
                    empty |-> BTreeIsEmpty(tree)]
        /\ UNCHANGED <<tree, tbl, db, fs, unsaved, peer>>

NextBTree ==
    \/ BInsert \/ BSearch \/ BGetMut \/ BRemove \/ BClear
    \/ BTraverse \/ BToVec \/ BLen

SpecBTree == InitBTree /\ [][NextBTree]_vars

----------------------------------------------------------------------------
(* Vocabulary of the properties *)

Has(m, key) == \E i \in 1..Len(m) : m[i][1] = key

\* a value that is not Null and not of the column's declared type
Mismatch(column, value) == value.tag # "Null" /\ value.tag # column.column_type

SomeMismatch(columns, values) ==
    \E i \in 1..Len(values) : Mismatch(columns[i], values[i])

\* the values sequences that conform to a schema
ConformingRows(columns) ==
    {vs \in [1..Len(columns) -> ValuePool] : ~SomeMismatch(columns, vs)}

\* the error kinds of the specification, as the code's DbError represents them
IsArityMismatch(res, columns, values) ==
    res = Other(Len(columns), Len(values))

TypeMismatch == TypeConversionError

MutatingOps == {"create_table", "drop_table", "insert", "update", "delete"}

IsSaveError(res) == res.kind \in {"IoError", "BincodeError"}

----------------------------------------------------------------------------
(* Properties *)

\* C1: whenever Database.insert, update or delete returns an error, the
\* in-memory tables are what they were before the call.
C1_AllOrNothing ==
    [][(last'.op \in {"insert", "update", "delete"} /\ last'.res # Ok)
          => db'.tables = db.tables]_vars

\* C2: after a successful save(), open(path) on the same path yields a
\* Database with the same table names, the same columns and primary_key per
\* table and the same (key, row) pairs per table in the same order.
C2_RoundTrip ==
    (last.op = "save" /\ last.res = Ok) =>
        LET o == DatabaseOpen(fs, db.path, "ok") IN
        /\ o.res = Ok
        /\ DatabaseListTables(o.db.v) = DatabaseListTables(db)
        /\ \A i \in 1..Len(db.tables) :
              /\ o.db.v.tables[i][2].columns = db.tables[i][2].columns
              /\ o.db.v.tables[i][2].primary_key = db.tables[i][2].primary_key
              /\ TableGetAll(o.db.v.tables[i][2]) = TableGetAll(db.tables[i][2])

C2_Witness ==
    /\ last.op = "save" /\ last.res = Ok
    /\ Len(db.tables) = 2
    /\ \A i \in 1..Len(db.tables) : TableLen(db.tables[i][2]) = 2

\* C3: right after a successful create_table, drop_table, insert, update or
\* delete of the Database, the file at its path decodes to exactly the whole
\* in-memory Database, with no byte left over; changes made earlier through
\* get_table_mut are part of it.
C3_FileHoldsMemory ==
    (last.op \in MutatingOps /\ last.res = Ok) =>
        /\ fs[db.path].exists
        /\ bincode_deserialize(fs[db.path].bytes)
              = Done(db, Len(fs[db.path].bytes) + 1)

C3_Witness ==
    /\ last.op = "insert" /\ last.res = Ok
    /\ last.flushed > 0

\* C4: Table.insert with a key that is present returns KeyExists and leaves
\* the table as it was, whatever the values.
C4_DuplicateInsert ==
    \A key \in Keys, values \in ValueSeqs :
        Has(tbl.data, key) =>
            TableInsert(tbl, key, values) = [res |-> KeyExists, table |-> tbl]

C4_Witness ==
    /\ last.op = "insert" /\ last.res = KeyExists
    /\ TableLen(tbl) = 2

\* C5: Table.update and Table.delete with a key that is not present return
\* KeyNotFound and leave the table as it was, whatever the values.
C5_MissingKey ==
    \A key \in Keys :
        ~Has(tbl.data, key) =>
            /\ TableDelete(tbl, key) = [res |-> KeyNotFound, table |-> tbl]
            /\ \A values \in ValueSeqs :
                  TableUpdate(tbl, key, values) = [res |-> KeyNotFound, table |-> tbl]

C5_Witness ==
    /\ last.op = "update" /\ last.res = KeyNotFound
    /\ TableLen(tbl) >= 1

\* C6: a values sequence whose length differs from the number of columns
\* never succeeds in insert or update and leaves the table as it was; insert
\* of an absent key and update of a present key fail with the arity error.
C6_ArityEnforcement ==
    \A key \in Keys, values \in ValueSeqs :
        Len(values) # Len(tbl.columns) =>
            LET i == TableInsert(tbl, key, values)
                u == TableUpdate(tbl, key, values)
            IN /\ i.res # Ok /\ i.table = tbl
               /\ u.res # Ok /\ u.table = tbl
               /\ ~Has(tbl.data, key) => IsArityMismatch(i.res, tbl.columns, values)
               /\ Has(tbl.data, key) => IsArityMismatch(u.res, tbl.columns, values)

C6_Witness ==
    /\ last.op = "update" /\ last.res.kind = "Other"
    /\ last.n > Len(tbl.columns)

\* C7 as stated: insert and update with a values sequence of the right
\* length that holds a non-Null value of the wrong type fail with
\* TypeMismatch and leave the table as it was.
C7_TypeMismatchAlways ==
    \A key \in Keys, values \in ValueSeqs :
        (Len(values) = Len(tbl.columns) /\ SomeMismatch(tbl.columns, values)) =>
            /\ TableInsert(tbl, key, values) = [res |-> TypeMismatch, table |-> tbl]
            /\ TableUpdate(tbl, key, values) = [res |-> TypeMismatch, table |-> tbl]

\* C7 amended: with such a values sequence, insert of an absent key and
\* update of a present key fail with TypeMismatch, insert of a present key
\* fails with KeyExists and update of an absent key with KeyNotFound; the
\* table is as it was and no such call succeeds.
C7_TypeEnforcement ==
    \A key \in Keys, values \in ValueSeqs :
        (Len(values) = Len(tbl.columns) /\ SomeMismatch(tbl.columns, values)) =>
            LET i == TableInsert(tbl, key, values)
                u == TableUpdate(tbl, key, values)
            IN /\ i.table = tbl /\ u.table = tbl
               /\ i.res = IF Has(tbl.data, key) THEN KeyExists ELSE TypeMismatch
               /\ u.res = IF Has(tbl.data, key) THEN TypeMismatch ELSE KeyNotFound

C7_Witness ==
    /\ last.op = "insert" /\ last.res = TypeMismatch
    /\ last.n = Len(tbl.columns)
    /\ TableLen(tbl) >= 1

\* C8: insert of an absent key and update of a present key succeed with every
\* values sequence of the right length whose values are each Null or of the
\* column's type, a row of Nulls included.
C8_NullAccepted ==
    \A key \in Keys, values \in ConformingRows(tbl.columns) :
        IF Has(tbl.data, key)
        THEN TableUpdate(tbl, key, values).res = Ok
        ELSE TableInsert(tbl, key, values).res = Ok

C8_Witness ==
    /\ last.op = "insert" /\ last.res = Ok
    /\ \E i \in 1..Len(tbl.data) :
          /\ tbl.data[i][1] = last.key
          /\ tbl.data[i][2].values = <<Null, Null>>

\* C9: insert and update return the error of the first failing check in the
\* order key check, arity check, type check, and Ok when none fails.
FirstFailure(keyError, columns, values) ==
    IF keyError # Ok THEN keyError
    ELSE IF Len(values) # Len(columns) THEN Other(Len(columns), Len(values))
    ELSE IF SomeMismatch(columns, values) THEN TypeMismatch
    ELSE Ok

C9_ValidationOrder ==
    \A key \in Keys, values \in ValueSeqs :
        /\ TableInsert(tbl, key, values).res =
              FirstFailure(IF Has(tbl.data, key) THEN KeyExists ELSE Ok,
                           tbl.columns, values)
        /\ TableUpdate(tbl, key, values).res =
              FirstFailure(IF Has(tbl.data, key) THEN Ok ELSE KeyNotFound,
                           tbl.columns, values)

C9_Witness ==
    /\ last.op = "insert" /\ last.res = KeyExists
    /\ last.n # Len(tbl.columns)

\* C10 as stated: for a table of the Database, a key not in it and values
\* conforming to its schema, insert succeeds and get then returns a row of
\* exactly these values, at the Table and through the Database.
C10_InsertAlwaysSucceeds ==
    \A i \in 1..Len(db.tables) :
        LET name == db.tables[i][1]
            t == db.tables[i][2]
        IN \A key \in DbKeys, values \in ConformingRows(t.columns) :
              ~Has(t.data, key) =>
                  /\ TableInsert(t, key, values).res = Ok
                  /\ TableGet(TableInsert(t, key, values).table, key)
                        = [res |-> Ok, row |-> RowNew(values)]
                  /\ \A io \in IoOutcomes :
                        LET r == DatabaseInsert(db, fs, name, key, values, io) IN
                        /\ r.res = Ok
                        /\ DatabaseGet(r.db, name, key)
                              = [res |-> Ok, row |-> RowNew(values)]

\* C10 amended: Table.insert succeeds and Table.get then returns exactly the
\* values; Database.insert succeeds unless its save fails, it then returns
\* the error of the save, and whenever it succeeds Database.get returns
\* exactly the values.
C10_InsertGet ==
    \A i \in 1..Len(db.tables) :
        LET name == db.tables[i][1]
            t == db.tables[i][2]
        IN \A key \in DbKeys, values \in ConformingRows(t.columns) :
              ~Has(t.data, key) =>
                  /\ TableInsert(t, key, values).res = Ok
                  /\ TableGet(TableInsert(t, key, values).table, key)
                        = [res |-> Ok, row |-> RowNew(values)]
                  /\ \A io \in IoOutcomes :
                        LET r == DatabaseInsert(db, fs, name, key, values, io) IN
                        /\ r.res = Ok \/ IsSaveError(r.res)
                        /\ (io = "ok" /\ IsUtf8(db.path)) => r.res = Ok
                        /\ r.res = Ok =>
                              DatabaseGet(r.db, name, key)
                                 = [res |-> Ok, row |-> RowNew(values)]

C10_Witness ==
    /\ last.op = "insert" /\ last.res = Ok
    /\ \E i \in 1..Len(db.tables) : TableLen(db.tables[i][2]) = 2
    /\ DatabaseOpen(fs, db.path, "ok").res = Ok

\* the (key, row) pairs that Table.get finds
Stored(t) ==
    {<<key, TableGet(t, key).row>> : key \in {k \in Keys : TableGet(t, k).res = Ok}}

\* C11: get_all returns every stored (key, row) pair exactly once in strictly
\* ascending key order, and find returns exactly the pairs whose row satisfies
\* the predicate, in strictly ascending key order, whatever calls came before.
C11_Ordering ==
    LET all == TableGetAll(tbl) IN
    /\ Ascending(all)
    /\ Len(all) = TableLen(tbl)
    /\ Pairs(all) = Stored(tbl)
    /\ \A predicate \in SUBSET {e[2] : e \in Stored(tbl)} :
          LET found == TableFind(tbl, predicate) IN
          /\ Ascending(found)
          /\ Pairs(found) = {e \in Stored(tbl) : e[2] \in predicate}
          /\ Len(found) = Cardinality(Pairs(found))

\* a key inserted after a greater one comes first in get_all
C11_Witness ==
    /\ last.op = "insert" /\ last.res = Ok
    /\ Len(TableGetAll(tbl)) = 2
    /\ TableGetAll(tbl)[1][1] = last.key
    /\ TableGetAll(tbl)[1][2] # TableGetAll(tbl)[2][2]

\* C12: a successful drop_table(name) removes exactly that table; while a
\* name is absent, get_table and get_table_mut, get, insert, update and
\* delete on it return TableNotFound and change nothing, list_tables does not
\* hold it, and no insert, update, delete or drop_table of another table
\* brings it back.
C12_TableLifecycle ==
    \A name \in TableNames :
        /\ LET r == DatabaseDropTable(db, fs, name, "ok") IN
           r.res = Ok =>
               /\ DatabaseGetTable(r.db, name).res = TableNotFound
               /\ \A i \in 1..Len(DatabaseListTables(r.db)) :
                     DatabaseListTables(r.db)[i] # name
               /\ \A other \in TableNames \ {name} :
                     DatabaseGetTable(r.db, other) = DatabaseGetTable(db, other)
        /\ ~Has(db.tables, name) =>
               LET unchanged == [res |-> TableNotFound, db |-> db, fs |-> fs] IN
               /\ DatabaseGetTable(db, name).res = TableNotFound
               /\ \A i \in 1..Len(DatabaseListTables(db)) :
                     DatabaseListTables(db)[i] # name
               /\ \A key \in DbKeys :
                     /\ DatabaseGet(db, name, key).res = TableNotFound
                     /\ DatabaseDelete(db, fs, name, key, "ok") = unchanged
                     /\ \A values \in DbValueSeqs :
                           /\ DatabaseInsert(db, fs, name, key, values, "ok") = unchanged
                           /\ DatabaseUpdate(db, fs, name, key, values, "ok") = unchanged
               /\ \A other \in TableNames \ {name} :
                     /\ ~Has(DatabaseDropTable(db, fs, other, "ok").db.tables, name)
                     /\ \A key \in DbKeys :
                           /\ ~Has(DeleteMem(db, other, key).db.tables, name)
                           /\ \A values \in DbValueSeqs :
                                 /\ ~Has(InsertMem(db, other, key, values).db.tables, name)
                                 /\ ~Has(UpdateMem(db, other, key, values).db.tables, name)

\* a table was dropped while another one holding rows stays
C12_Witness ==
    /\ last.op = "drop_table" /\ last.res = Ok
    /\ Len(db.tables) = 1
    /\ TableLen(db.tables[1][2]) >= 1

\* C13: create_table with a name that is present returns TableExists and
\* leaves the Database and the file as they were, whatever the columns; with
\* a name that is absent it adds a table of the given columns and primary_key
\* with zero rows and leaves the other tables as they were.
C13_CreateTable ==
    \A name \in TableNames, columns \in Schemas, io \in IoOutcomes :
        LET pk == PrimaryKeyOf(columns)
            r == DatabaseCreateTable(db, fs, name, columns, pk, io)
        IN IF Has(db.tables, name)
           THEN r = [res |-> TableExists, db |-> db, fs |-> fs]
           ELSE /\ r.res # TableExists
                /\ (io = "ok" /\ IsUtf8(db.path)) => r.res = Ok
                /\ DatabaseGetTable(r.db, name)
                      = [res |-> Ok, table |-> TableNew(name, columns, pk)]
                /\ TableLen(DatabaseGetTable(r.db, name).table) = 0
                /\ \A other \in TableNames \ {name} :
                      DatabaseGetTable(r.db, other) = DatabaseGetTable(db, other)

C13_Witness ==
    /\ last.op = "create_table" /\ last.res = TableExists
    /\ Len(db.tables) = 2
    /\ \A i \in 1..Len(db.tables) : TableLen(db.tables[i][2]) >= 1

\* C14: whenever create_table or drop_table returns an error, the tables in
\* memory are what they were before the call.
C14_NoPartialTables ==
    [][(last'.op \in {"create_table", "drop_table"} /\ last'.res # Ok)
          => db'.tables = db.tables]_vars

ReadOps ==
    {"get", "get_table", "list_tables", "table_get", "get_all", "get_as_map",
     "find", "len", "is_empty"}

\* C15: Database.get, get_table, list_tables and Table.get, get_all,
\* get_as_map, find, len, is_empty leave the in-memory tables and every file
\* as they were, whether they succeed or return TableNotFound or KeyNotFound.
C15_ReadsChangeNothing ==
    [][last'.op \in ReadOps => (db' = db /\ fs' = fs /\ tbl' = tbl)]_vars

\* a read made while memory holds a change the file does not
C15_Witness ==
    /\ last.op = "find" /\ last.n = 1
    /\ unsaved > 0
    /\ fs[db.path].exists
    /\ bincode_deserialize(fs[db.path].bytes).val # db

\* C16: open of a path at which no file exists returns IoError(NotFound),
\* no Database, and leaves the filesystem as it was.
C16_OpenMissing ==
    \A path \in Paths, io \in ReadOutcomes :
        ~fs[path].exists =>
            DatabaseOpen(fs, path, io)
               = [res |-> IoError("NotFound"), db |-> None, fs |-> fs]

C16_Witness ==
    /\ last.op = "open" /\ last.res = IoError("NotFound")
    /\ fs[PathA].exists
    /\ ~fs[PathBad].exists

\* C17: open of a file whose bytes do not decode returns the decode error,
\* no Database, and leaves the file as it was; the file a save has written,
\* cut short at any length, is such a file.
C17_OpenCorrupt ==
    /\ \A path \in Paths :
          (fs[path].exists /\ ~bincode_deserialize(fs[path].bytes).ok) =>
              DatabaseOpen(fs, path, "ok")
                 = [res |-> BincodeError, db |-> None, fs |-> fs]
    /\ (last.op = "save" /\ last.res = Ok) =>
           \A n \in 0..(Len(fs[db.path].bytes) - 1) :
               LET cut == [fs EXCEPT ![db.path] =
                              File(SubSeq(fs[db.path].bytes, 1, n))]
               IN DatabaseOpen(cut, db.path, "ok")
                     = [res |-> BincodeError, db |-> None, fs |-> cut]

C17_Witness ==
    /\ last.op = "open" /\ last.res = BincodeError
    /\ Len(fs[PathA].bytes) > Len(SerStr(PathA)) + 1

\* every stored row of a table has one value per column, each Null or of
\* the column's type
Conforms(t) ==
    \A i \in 1..Len(t.data) :
        /\ Len(t.data[i][2].values) = Len(t.columns)
        /\ ~SomeMismatch(t.columns, t.data[i][2].values)

\* C18: in every reachable state every stored row of every table conforms
\* to the table's schema, after calls through the Database, through
\* get_table_mut and after open of a saved file.
C18_SchemaConformance ==
    \A i \in 1..Len(db.tables) : Conforms(db.tables[i][2])

C18_Witness ==
    /\ last.op = "open" /\ last.res = Ok
    /\ \E i \in 1..Len(db.tables) :
          /\ TableLen(db.tables[i][2]) = 2
          /\ db.tables[i][2].data[1][2].values # <<Null>>
          /\ db.tables[i][2].data[2][2].values = <<Null>>

\* C19: list_tables returns the names of the tables of the Database, each
\* once, in strictly ascending String order.
C19_ListTables ==
    LET names == DatabaseListTables(db) IN
    /\ \A i \in 1..(Len(names) - 1) : StrLess(names[i], names[i + 1])
    /\ {names[i] : i \in 1..Len(names)}
          = {name \in TableNames : DatabaseGetTable(db, name).res = Ok}
    /\ Len(names) = Cardinality({names[i] : i \in 1..Len(names)})

\* the table that sorts first was created after the other one had rows
C19_Witness ==
    /\ last.op = "create_table" /\ last.res = Ok
    /\ Len(DatabaseListTables(db)) = 2
    /\ TableLen(db.tables[1][2]) = 0
    /\ TableLen(db.tables[2][2]) >= 1

\* C20: a save whose write fails part-way returns the I/O error and leaves
\* at the path a file that is not the encoding of the Database, that does
\* not decode, and that open refuses with the decode error.
C20_SaveNotAtomic ==
    LET s == bincode_serialize(db)
        r == DatabaseSave(db, fs, "write_part")
    IN s.ok =>
          /\ r.res = IoError("Other")
          /\ r.fs[db.path].exists
          /\ r.fs[db.path].bytes # s.bytes
          /\ ~bincode_deserialize(r.fs[db.path].bytes).ok
          /\ DatabaseOpen(r.fs, db.path, "ok").res = BincodeError

\* a failed update left a file holding a row that no longer decodes
C20_Witness ==
    /\ last.op = "update" /\ last.res = IoError("Other")
    /\ fs[db.path].exists
    /\ ~bincode_deserialize(fs[db.path].bytes).ok
    /\ Len(fs[db.path].bytes) > Len(bincode_serialize(DatabaseNew(db.path)).bytes) + 8

\* the errors a row operation returns before it reaches the save
RowErrors ==
    {"TableNotFound", "KeyExists", "KeyNotFound", "Other", "TypeConversionError"}

\* C21: a Database.insert, update or delete that returns TableNotFound,
\* KeyExists, KeyNotFound, an arity error or a type error has not called
\* save: every file is what it was before the call, whether a write would
\* have succeeded or failed part-way; and when the named table does not exist the result is
\* TableNotFound for every key and every values sequence.
C21_FailedCallNoSave ==
    \A name \in TableNames, key \in DbKeys, values \in DbValueSeqs,
       io \in {"ok", "write_part"} :
        \A r \in {DatabaseInsert(db, fs, name, key, values, io),
                  DatabaseUpdate(db, fs, name, key, values, io),
                  DatabaseDelete(db, fs, name, key, io)} :
            /\ r.res.kind \in RowErrors => r.fs = fs
            /\ ~Has(db.tables, name) => r.res = TableNotFound

\* an insert refused with KeyExists while memory holds a change that a save
\* would have written to the file
C21_Witness ==
    /\ last.op = "insert" /\ last.res = KeyExists
    /\ unsaved > 0
    /\ fs[db.path].exists
    /\ bincode_deserialize(fs[db.path].bytes).val # db

\* the file at d.path is the encoding of d: open would return exactly d
FileHolds(d, fsv) ==
    /\ fsv[d.path].exists
    /\ bincode_serialize(d).ok
    /\ fsv[d.path].bytes = bincode_serialize(d).bytes

MutOps == {"mut_insert", "mut_update", "mut_delete"}

\* C22: a Table.insert, update or delete made on the table that
\* get_table_mut returns changes memory only and leaves every file as it
\* was; the file comes to hold the state of memory only through a successful
\* save or a successful mutating Database operation, and every such call
\* leaves the file holding all of memory, these changes included.
C22_MutationsStayInMemory ==
    [][/\ last'.op \in MutOps => fs' = fs
       /\ (FileHolds(db', fs') /\ ~FileHolds(db', fs))
             => (last'.op \in MutatingOps \cup {"save"} /\ last'.res = Ok)
       /\ (last'.op \in MutatingOps \cup {"save"} /\ last'.res = Ok)
             => FileHolds(db', fs')]_vars

\* a row inserted through get_table_mut that the file, still a valid
\* database file, does not hold
C22_Witness ==
    /\ last.op = "mut_insert"
    /\ fs[db.path].exists
    /\ bincode_deserialize(fs[db.path].bytes).ok
    /\ \E name \in TableNames, key \in DbKeys :
          /\ DatabaseGet(db, name, key).res = Ok
          /\ DatabaseGet(bincode_deserialize(fs[db.path].bytes).val, name, key).res
                = KeyNotFound

\* what open(path) returns after the first write of a Database d: its tables
OpenedTables(w, path) == DatabaseOpen(w.fs, path, "ok").db.v.tables

\* the first save, or the first create_table, of a Database d replaces the
\* whole file: open returns the tables of d, and none the file held before
FirstWriteReplaces(d, fsv) ==
    /\ \A s \in {DatabaseSave(d, fsv, "ok")} :
          s.res = Ok =>
             /\ DatabaseOpen(s.fs, d.path, "ok").res = Ok
             /\ OpenedTables(s, d.path) = <<>>
    /\ \A def \in TableDefs :
       \A c \in {DatabaseCreateTable(d, fsv, def.name, def.columns,
                                     def.primary_key, "ok")} :
          c.res = Ok =>
             /\ DatabaseOpen(c.fs, d.path, "ok").res = Ok
             /\ MapKeys(OpenedTables(c, d.path)) = <<def.name>>
             /\ TableIsEmpty(OpenedTables(c, d.path)[1][2])

\* C23: Database::new(path) returns a Database without tables and leaves
\* every file as it was, also when a valid database file exists at path;
\* the first successful save or create_table of the new Database replaces
\* the whole file, so that open(path) no longer returns a table that was
\* persisted there before.
C23_NewIgnoresFile ==
    [][last'.op = "new" =>
          /\ db'.tables = <<>>
          /\ fs' = fs
          /\ FirstWriteReplaces(db', fs')]_vars

\* new(path) called while the file at path holds a table with a row
C23_Witness ==
    /\ last.op = "new"
    /\ db.tables = <<>>
    /\ fs[db.path].exists
    /\ bincode_deserialize(fs[db.path].bytes).ok
    /\ \E name \in TableNames, key \in DbKeys :
          DatabaseGet(bincode_deserialize(fs[db.path].bytes).val, name, key).res = Ok

PeerMutatingOps == {"peer_create_table", "peer_insert"}

\* what open(path) returns now
Reopened(path) == DatabaseOpen(fs, path, "ok").db.v

\* the tables and rows of instance d that instance w does not have are not
\* in what open returns
OnlyWriterPersisted(w, d) ==
    /\ \A name \in TableNames :
          (Has(d.tables, name) /\ ~Has(w.tables, name))
             => ~Has(Reopened(w.path).tables, name)
    /\ \A name \in TableNames, key \in DbKeys :
          (DatabaseGet(d, name, key).res = Ok /\ DatabaseGet(w, name, key).res # Ok)
             => DatabaseGet(Reopened(w.path), name, key).res # Ok

\* C24: with two Database instances bound to the same path, after a
\* successful mutating operation of either instance the file is the encoding
\* of exactly that instance's memory, whatever the other instance had
\* written before: a table or a row that only the other instance holds is
\* not in what open(path) returns.
C24_LastWriterWins ==
    /\ (last.op \in PeerMutatingOps /\ last.res = Ok)
          => (FileHolds(peer, fs) /\ OnlyWriterPersisted(peer, db))
    /\ (last.op \in MutatingOps /\ last.res = Ok)
          => (FileHolds(db, fs) /\ OnlyWriterPersisted(db, peer))

\* a lost update: a row that peer inserted, and so wrote to the file, is
\* gone from the file after a successful create_table of db
C24_Witness ==
    /\ last.op = "create_table" /\ last.res = Ok
    /\ db.path = peer.path
    /\ \E name \in TableNames, key \in DbKeys :
          /\ DatabaseGet(peer, name, key).res = Ok
          /\ DatabaseGet(Reopened(db.path), name, key).res # Ok

\* the path field encoded in the file at path
RecordedPath(fsv, path) == bincode_deserialize(fsv[path].bytes).val.path

\* the filesystem in which the file at from has been copied to the path to
CopiedTo(fsv, from, to) == [fsv EXCEPT ![to] = fsv[from]]

\* the write w of the Database d went to the file at path and to no other
WroteTo(w, d, fsv, path) ==
    /\ w.fs[path] = File(bincode_serialize(d).bytes)
    /\ \A q \in Paths \ {path} : w.fs[q] = fsv[q]

\* a successful save or create_table of d writes the file at path only
PersistsTo(d, fsv, path) ==
    /\ \A s \in {DatabaseSave(d, fsv, "ok")} :
          s.res = Ok /\ WroteTo(s, d, fsv, path)
    /\ \A def \in TableDefs :
       \A c \in {DatabaseCreateTable(d, fsv, def.name, def.columns,
                                     def.primary_key, "ok")} :
          c.res = Ok => WroteTo(c, c.db, fsv, path)

C26_UpdateReplacesRow ==
    \A key \in Keys, values \in ValueSeqs :
    \A u \in {TableUpdate(tbl, key, values)} :
        u.res = Ok =>
            /\ TableGet(u.table, key) = [res |-> Ok, row |-> RowNew(values)]
            /\ \A other \in Keys \ {key} :
                  TableGet(u.table, other) = TableGet(tbl, other)
            /\ MapKeys(u.table.data) = MapKeys(tbl.data)
            /\ TableLen(u.table) = TableLen(tbl)

\* an update has put a Null into a row of a table that holds another row
C26_Witness ==
    /\ last.op = "update" /\ last.res = Ok
    /\ TableLen(tbl) = 2
    /\ \E i \in 1..Len(tbl.columns) :
          /\ TableGet(tbl, last.key).row.values[i] = Null
          /\ \E other \in Keys \ {last.key} :
                /\ TableGet(tbl, other).res = Ok
                /\ TableGet(tbl, other).row.values[i] # Null

\* C27: a successful Table.delete(key) removes the row at key and no other:
\* get(key) then returns KeyNotFound, len() is one less, the row of every
\* other key is as it was, and an insert of the same key with conforming
\* values succeeds and stores those values.
C27_DeleteRemovesRow ==
    \A key \in Keys :
    \A d \in {TableDelete(tbl, key)} :
        d.res = Ok =>
            /\ TableGet(d.table, key) = [res |-> KeyNotFound]
            /\ TableLen(d.table) = TableLen(tbl) - 1
            /\ \A other \in Keys \ {key} :
                  TableGet(d.table, other) = TableGet(tbl, other)
            /\ \A values \in ConformingRows(tbl.columns) :
               \A i \in {TableInsert(d.table, key, values)} :
                  /\ i.res = Ok
                  /\ TableGet(i.table, key) = [res |-> Ok, row |-> RowNew(values)]

\* a delete has removed one row of two
C27_Witness ==
    /\ last.op = "delete" /\ last.res = Ok
    /\ TableLen(tbl) = 1
    /\ TableGet(tbl, last.key).res = KeyNotFound

\* C28: get_as_map(key) of a present key returns a mapping with exactly one
\* entry per column of the table, in which each column's name maps to the
\* value stored at that column's position in the row; of an absent key it
\* returns KeyNotFound.
C28_OneEntryPerColumn ==
    \A key \in Keys :
    \A g \in {TableGetAsMap(tbl, key)} :
        IF TableGet(tbl, key).res = Ok
        THEN /\ g.res = Ok
             /\ Cardinality(DOMAIN g.map) = Len(tbl.columns)
             /\ \A i \in 1..Len(tbl.columns) :
                   g.map[tbl.columns[i].name] = TableGet(tbl, key).row.values[i]
        ELSE g = [res |-> KeyNotFound]

\* C29: BTree.insert(key, value) is an upsert that cannot fail: afterwards
\* search(key) returns value; with key present before, len() and every
\* other pair are unchanged; with key absent before, len() is one more and
\* every other pair is unchanged.
C29_InsertIsUpsert ==
    \A key \in Keys, value \in BValues :
    \A t \in {BTreeInsert(tree, key, value)} :
        /\ BTreeSearch(t, key) = Some(value)
        /\ \A other \in Keys \ {key} :
              BTreeSearch(t, other) = BTreeSearch(tree, other)
        /\ BTreeLen(t) = IF BTreeSearch(tree, key).some
                         THEN BTreeLen(tree)
                         ELSE BTreeLen(tree) + 1

\* an insert has overwritten the value of a present key with another value,
\* in a container holding more pairs
C29_Witness ==
    /\ last.op = "insert"
    /\ last.replaced.some
    /\ last.replaced # BTreeSearch(tree, last.key)
    /\ BTreeLen(tree) = 3

\* the sequence pairs holds every pair stored in m once, and nothing else
ExactlyThePairsOf(pairs, m) ==
    /\ Len(pairs) = BTreeLen(m)
    /\ \A key \in Keys :
          IF BTreeSearch(m, key).some
          THEN /\ Cardinality({i \in 1..Len(pairs) : pairs[i][1] = key}) = 1
               /\ \E i \in 1..Len(pairs) :
                     pairs[i] = <<key, BTreeSearch(m, key).v>>
          ELSE \A i \in 1..Len(pairs) : pairs[i][1] # key

\* C30: after any sequence of insert, get_mut, remove and clear, traverse
\* calls the visitor once for each stored pair and for nothing else, in
\* strictly ascending order of the keys; to_vec returns the same pairs in
\* the same order; and neither changes the container.
C30_TraverseInOrder ==
    [][last'.op \in {"traverse", "to_vec"} =>
          /\ tree' = tree
          /\ ExactlyThePairsOf(last'.pairs, tree)
          /\ Ascending(last'.pairs)
          /\ last'.pairs = BTreeTraverse(tree)
          /\ last'.pairs = BTreeToVec(tree)]_vars

\* to_vec of a container that holds all three keys
C30_Witness ==
    /\ last.op = "to_vec"
    /\ Len(last.pairs) = 3
    /\ last.pairs[1][2] # last.pairs[3][2]

\* the finite map a container stands for: what search returns for each key
AsMap(m) == [k \in Keys |-> BTreeSearch(m, k)]

\* C31: the container behaves as a finite map.  insert(k, v) makes
\* search(k) return v and changes the result of no other search; remove(k)
\* returns what search(k) returned, makes search(k) return nothing and
\* changes no other search, and changes nothing at all when k is absent;
\* clear() makes every search return nothing and len() 0; search returns
\* what the map holds; len() is the number of keys for which search returns
\* a value, and is_empty() holds exactly when len() is 0.  So search(k)
\* returns the value most recently inserted for k unless k was removed or
\* the container cleared since.
C31_FiniteMap ==
    [][/\ last'.op = "insert"
          => AsMap(tree') = [AsMap(tree) EXCEPT ![last'.key] = Some(last'.value)]
       /\ last'.op = "remove"
          => /\ last'.removed = AsMap(tree)[last'.key]
             /\ AsMap(tree') = [AsMap(tree) EXCEPT ![last'.key] = None]
             /\ ~AsMap(tree)[last'.key].some => tree' = tree
             /\ AsMap(tree)[last'.key].some => BTreeLen(tree') = BTreeLen(tree) - 1
       /\ last'.op = "clear"
          => /\ AsMap(tree') = [k \in Keys |-> None]
             /\ BTreeLen(tree') = 0
             /\ BTreeIsEmpty(tree')
       /\ last'.op = "search"
          => (last'.found = AsMap(tree)[last'.key] /\ tree' = tree)
       /\ last'.op = "len"
          => /\ last'.n = Cardinality({k \in Keys : AsMap(tree)[k].some})
             /\ last'.empty = (last'.n = 0)
             /\ tree' = tree]_vars

\* remove has returned the value of one of three stored keys
C31_Witness ==
    /\ last.op = "remove"
    /\ last.removed.some
    /\ BTreeLen(tree) = 2
    /\ ~BTreeSearch(tree, last.key).some

====
